---- MODULE Spec2Model ----
(***************************************************************************)
(* MD4 message digest (MD4.py): padding, length append, the three rounds   *)
(* of the compression function and the block loop of md4().                *)
(*                                                                         *)
(* Python integers are unbounded.  They are modelled in two's complement   *)
(* as sequences of IntBytes bytes, least significant first (the top bit of *)
(* the last byte is the sign), which is exact as long as no value needs    *)
(* more than 8 * IntBytes bits; the largest values of the program are      *)
(* X << 19 for a 32-bit X and 1 << 64 in append_length.                    *)
(***************************************************************************)
EXTENDS Integers, Sequences, FiniteSets, TLC

IntBytes == 9

Limbs == 1 .. IntBytes

\* ------------------------------------------------------------------------
\* Python int arithmetic
\* ------------------------------------------------------------------------

Pow2(n) == 2 ^ n

\* a function on 1..n as a sequence (TLC then evaluates its elements once)
AsSeq(fn) == fn \o <<>>

\* bit j of the byte a
BitOf(a, j) == (a \div Pow2(j)) % 2

\* a & b for a, b in 0..15, tabulated: AndNibble[a + 1][b + 1]
AndNibble ==
    AsSeq([a \in 1..16 |->
        AsSeq([b \in 1..16 |->
            BitOf(a - 1, 0) * BitOf(b - 1, 0) + 2 * BitOf(a - 1, 1) * BitOf(b - 1, 1)
            + 4 * BitOf(a - 1, 2) * BitOf(b - 1, 2) + 8 * BitOf(a - 1, 3) * BitOf(b - 1, 3)])])

\* a & b, a | b, a ^ b for bytes a, b
And8(a, b) ==
    AndNibble[(a % 16) + 1][(b % 16) + 1] + 16 * AndNibble[(a \div 16) + 1][(b \div 16) + 1]

Or8(a, b) == a + b - And8(a, b)

Xor8(a, b) == a + b - 2 * And8(a, b)

\* a natural number n < 2^31 as a Python int
PyInt(n) == [k \in Limbs |-> IF k <= 4 THEN (n \div Pow2(8 * (k - 1))) % 256 ELSE 0]

\* the 32-bit literal 0xHHHHLLLL given by its two 16-bit halves
Lit32(hi, lo) ==
    [k \in Limbs |-> CASE k = 1 -> lo % 256
                       [] k = 2 -> lo \div 256
                       [] k = 3 -> hi % 256
                       [] k = 4 -> hi \div 256
                       [] OTHER -> 0]

PyAnd(x, y) == AsSeq([k \in Limbs |-> And8(x[k], y[k])])

PyOr(x, y) == AsSeq([k \in Limbs |-> Or8(x[k], y[k])])

PyXor(x, y) == AsSeq([k \in Limbs |-> Xor8(x[k], y[k])])

\* ~x  (= -x - 1: every bit of the two's-complement form flipped)
PyNot(x) == AsSeq([k \in Limbs |-> 255 - x[k]])

IsNegative(x) == x[IntBytes] >= 128

\* x + y + carry, byte by byte from limb k on; acc holds the limbs below k
RECURSIVE AddFrom(_, _, _, _, _)
AddFrom(x, y, carry, k, acc) ==
    IF k > IntBytes THEN acc
    ELSE LET t == x[k] + y[k] + carry
         IN  AddFrom(x, y, t \div 256, k + 1, Append(acc, t % 256))

\* x + y
PyAdd(x, y) == AddFrom(x, y, 0, 1, <<>>)

\* x - y  (= x + ~y + 1)
PySub(x, y) == AddFrom(x, PyNot(y), 1, 1, <<>>)

\* x << n
PyShl(x, n) ==
    LET q == n \div 8
        r == n % 8
        at(j) == IF j >= 1 THEN x[j] ELSE 0
    IN  AsSeq([k \in Limbs |-> ((at(k - q) * Pow2(r)) % 256) + (at(k - q - 1) \div Pow2(8 - r))])

\* x >> n  (arithmetic: the sign is kept)
PyShr(x, n) ==
    LET q == n \div 8
        r == n % 8
        at(j) == IF j <= IntBytes THEN x[j] ELSE IF IsNegative(x) THEN 255 ELSE 0
    IN  AsSeq([k \in Limbs |-> (at(k + q) \div Pow2(r)) + ((at(k + q + 1) * Pow2(8 - r)) % 256)])

\* x * n for a natural number n
RECURSIVE PyMul(_, _)
PyMul(x, n) ==
    IF n = 0 THEN PyInt(0)
    ELSE IF n % 2 = 1 THEN PyAdd(x, PyMul(PyShl(x, 1), n \div 2))
    ELSE PyMul(PyShl(x, 1), n \div 2)

\* 0 <= x < 2^(8n)
FitsBytes(x, n) == ~IsNegative(x) /\ \A k \in Limbs : k > n => x[k] = 0

\* a call's outcome: the value returned, or the exception raised
Returns(v) == [exc |-> "none", val |-> v]

Raises(e) == [exc |-> e, val |-> <<>>]

\* int.to_bytes(length=n, byteorder='little'): OverflowError for a negative
\* value and for one that does not fit in n bytes
to_bytes(x, n) ==
    IF ~FitsBytes(x, n) THEN Raises("OverflowError")
    ELSE Returns([k \in 1..n |-> x[k]])

\* (variant: the words decoded most significant byte first)
unpack_16I_big_endian(block) ==
    IF Len(block) # 64 THEN Raises("struct.error")
    ELSE Returns([j \in 1..16 |->
            [k \in Limbs |-> IF k <= 4 THEN block[4 * (j - 1) + (5 - k)] ELSE 0]])

\* struct.unpack("<16I", block): sixteen unsigned 32-bit little-endian words;
\* struct.error unless the buffer holds exactly 64 bytes
unpack_16I(block) ==
    IF Len(block) # 64 THEN Raises("struct.error")
    ELSE Returns([j \in 1..16 |->
            [k \in Limbs |-> IF k <= 4 THEN block[4 * (j - 1) + k] ELSE 0]])

\* struct.pack("<4L", *values): four unsigned 32-bit little-endian words;
\* struct.error unless there are four values, each in 0 .. 2^32 - 1
pack_4L(values) ==
    IF Len(values) # 4 \/ \E j \in 1..Len(values) : ~FitsBytes(values[j], 4)
    THEN Raises("struct.error")
    ELSE Returns([k \in 1..16 |-> values[((k - 1) \div 4) + 1][((k - 1) % 4) + 1]])

HexDigits == <<"0", "1", "2", "3", "4", "5", "6", "7",
               "8", "9", "a", "b", "c", "d", "e", "f">>

\* bytes.hex(): two lowercase hexadecimal digits per byte, high nibble first,
\* as the sequence of its characters
hex(bs) ==
    [k \in 1..(2 * Len(bs)) |->
        LET byte == bs[(k + 1) \div 2]
        IN  IF k % 2 = 1 THEN HexDigits[(byte \div 16) + 1] ELSE HexDigits[(byte % 16) + 1]]

\* ------------------------------------------------------------------------
\* MD4.py
\* ------------------------------------------------------------------------

\* 0xFFFFFFFF
Mask32 == Lit32(\hFFFF, \hFFFF)

\* (variant: padded to a multiple of 512 bits instead of 448 mod 512)
pad_message_to_512(message) ==
    LET padded_message == message \o <<128>>
        original_bit_length == Len(padded_message) * 8
        padding_length == (512 - original_bit_length) % 512
    IN  padded_message \o [k \in 1..(padding_length \div 8) |-> 0]

\* (variant: 448 - original_bit_length % 512, the parentheses lost)
pad_message_unparenthesised(message) ==
    LET padded_message == message \o <<128>>
        original_bit_length == Len(padded_message) * 8
        padding_length == 448 - (original_bit_length % 512)
    IN  padded_message \o [k \in 1..(padding_length \div 8) |-> 0]

pad_message(message) ==
    LET padded_message == message \o <<128>>
        original_bit_length == Len(padded_message) * 8
        padding_length == (448 - original_bit_length) % 512
    IN  padded_message \o [k \in 1..(padding_length \div 8) |-> 0]

\* (variant: the bit length not reduced to its low-order 64 bits)
append_length_unmasked(message, original_length) ==
    LET original_bit_length == PyMul(original_length, 8)
        encoded == to_bytes(original_bit_length, 8)
    IN  IF encoded.exc # "none" THEN encoded
        ELSE Returns(message \o encoded.val)

append_length(message, original_length) ==
    LET original_bit_length == PyMul(original_length, 8)
        low_order == PyAnd(original_bit_length, PySub(PyShl(PyInt(1), 64), PyInt(1)))
        encoded == to_bytes(low_order, 8)
    IN  IF encoded.exc # "none" THEN encoded
        ELSE Returns(message \o encoded.val)

\* (variant: the result not masked to 32 bits)
left_rotate_unmasked(X, N) == PyOr(PyShl(X, N), PyShr(X, 32 - N))

left_rotate(X, N) == PyAnd(PyOr(PyShl(X, N), PyShr(X, 32 - N)), Mask32)

f(X, Y, Z) == PyOr(PyAnd(X, Y), PyAnd(PyNot(X), Z))

g(X, Y, Z) == PyOr(PyOr(PyAnd(X, Y), PyAnd(X, Z)), PyAnd(Y, Z))

h(X, Y, Z) == PyXor(PyXor(X, Y), Z)

\* 0x5A827999
K2 == Lit32(\h5A82, \h7999)

\* 0x6ED9EBA1
K3 == Lit32(\h6ED9, \hEBA1)

\* (variant: the mask applied to f(B, C, D) + X only, A added after it)
operation_round_1_inner_mask(A, B, C, D, X, S) ==
    left_rotate(PyAdd(A, PyAnd(PyAdd(PyAnd(f(B, C, D), Mask32), X), Mask32)), S)

\* "+" binds tighter than "&": the mask applies to A + (...)
operation_round_1(A, B, C, D, X, S) ==
    left_rotate(PyAnd(PyAdd(A, PyAdd(PyAnd(f(B, C, D), Mask32), X)), Mask32), S)

operation_round_2(A, B, C, D, X, S) ==
    left_rotate(PyAnd(PyAdd(A, PyAdd(PyAdd(PyAnd(g(B, C, D), Mask32), X), K2)), Mask32), S)

operation_round_3(A, B, C, D, X, S) ==
    left_rotate(PyAnd(PyAdd(A, PyAdd(PyAdd(PyAnd(h(B, C, D), Mask32), X), K3)), Mask32), S)

\* one statement of a round driver,  t = operation_round_n(a1, a2, a3, a4, X[k], s)
Stmt(t, a1, a2, a3, a4, k, s) == [t |-> t, args |-> <<a1, a2, a3, a4>>, k |-> k, s |-> s]

round_1 == <<
    Stmt("A", "A", "B", "C", "D", 0, 3),
    Stmt("D", "D", "A", "B", "C", 1, 7),
    Stmt("C", "C", "D", "A", "B", 2, 11),
    Stmt("B", "B", "C", "D", "A", 3, 19),
    Stmt("A", "A", "B", "C", "D", 4, 3),
    Stmt("D", "D", "A", "B", "C", 5, 7),
    Stmt("C", "C", "D", "A", "B", 6, 11),
    Stmt("B", "B", "C", "D", "A", 7, 19),
    Stmt("A", "A", "B", "C", "D", 8, 3),
    Stmt("D", "D", "A", "B", "C", 9, 7),
    Stmt("C", "C", "D", "A", "B", 10, 11),
    Stmt("B", "B", "C", "D", "A", 11, 19),
    Stmt("A", "A", "B", "C", "D", 12, 3),
    Stmt("D", "D", "A", "B", "C", 13, 7),
    Stmt("C", "C", "D", "A", "B", 14, 11),
    Stmt("B", "B", "C", "D", "A", 15, 19) >>

round_2 == <<
    Stmt("A", "A", "B", "C", "D", 0, 3),
    Stmt("D", "D", "A", "B", "C", 4, 5),
    Stmt("C", "C", "D", "A", "B", 8, 9),
    Stmt("B", "B", "C", "D", "A", 12, 13),
    Stmt("A", "A", "B", "C", "D", 1, 3),
    Stmt("D", "D", "A", "B", "C", 5, 5),
    Stmt("C", "C", "D", "A", "B", 9, 9),
    Stmt("B", "B", "C", "D", "A", 13, 13),
    Stmt("A", "A", "B", "C", "D", 2, 3),
    Stmt("D", "D", "A", "B", "C", 6, 5),
    Stmt("C", "C", "D", "A", "B", 10, 9),
    Stmt("B", "B", "C", "D", "A", 14, 13),
    Stmt("A", "A", "B", "C", "D", 3, 3),
    Stmt("D", "D", "A", "B", "C", 7, 5),
    Stmt("C", "C", "D", "A", "B", 11, 9),
    Stmt("B", "B", "C", "D", "A", 15, 13) >>

\* (variant: round 3 reading the words in the order of round 2)
round_3_in_round_2_order ==
    [n \in 1..16 |-> [round_2[n] EXCEPT !.s = <<3, 9, 11, 15>>[((n - 1) % 4) + 1]]]

round_3 == <<
    Stmt("A", "A", "B", "C", "D", 0, 3),
    Stmt("D", "D", "A", "B", "C", 8, 9),
    Stmt("C", "C", "D", "A", "B", 4, 11),
    Stmt("B", "B", "C", "D", "A", 12, 15),
    Stmt("A", "A", "B", "C", "D", 2, 3),
    Stmt("D", "D", "A", "B", "C", 10, 9),
    Stmt("C", "C", "D", "A", "B", 6, 11),
    Stmt("B", "B", "C", "D", "A", 14, 15),
    Stmt("A", "A", "B", "C", "D", 1, 3),
    Stmt("D", "D", "A", "B", "C", 9, 9),
    Stmt("C", "C", "D", "A", "B", 5, 11),
    Stmt("B", "B", "C", "D", "A", 13, 15),
    Stmt("A", "A", "B", "C", "D", 3, 3),
    Stmt("D", "D", "A", "B", "C", 11, 9),
    Stmt("C", "C", "D", "A", "B", 7, 11),
    Stmt("B", "B", "C", "D", "A", 15, 15) >>

\* ------------------------------------------------------------------------
\* The messages hashed
\* ------------------------------------------------------------------------

MaxCalls == 3

\* b"", b"a", b"abc", b"message digest", b"abcdefghijklmnopqrstuvwxyz"
KnownAnswerMessages ==
    { <<>>,
      <<97>>,
      <<97, 98, 99>>,
      <<109, 101, 115, 115, 97, 103, 101, 32, 100, 105, 103, 101, 115, 116>>,
      [k \in 1..26 |-> 96 + k] }

\* the shortest message that takes two blocks
BoundaryLengths == {56}

\* a message of n bytes with varying content, 0x00 and 0x80 among them
Filled(n) == [k \in 1..n |-> (128 * k) % 255]

Messages == KnownAnswerMessages \cup { Filled(n) : n \in BoundaryLengths }

\* ------------------------------------------------------------------------
\* md4_hex_digest(message) and, inside it, md4(message), statement by statement
\* ------------------------------------------------------------------------

VARIABLES
    pc,           \* the statement about to run; "idle" between calls
    arg,          \* the argument of the call in progress
    message,      \* md4's parameter, rebound to the pre-processed message
    initial_message_byte_length,
    buffers,
    num_blocks,
    i,            \* the index range(num_blocks) yields next
    X,
    A, B, C, D,   \* the locals of md4 and, during a round, of the round driver
    step,         \* statements of the round driver already run
    reads,        \* the indices k of the X[k] the round driver has read so far
    last_fgh,     \* what the last call of f, g or h returned
    digest,       \* what md4 returned
    hexdigest,    \* what md4_hex_digest returned
    exc,          \* the exception raised, "none" if none
    log,          \* the calls completed: argument and results, in order
    call,         \* a direct call of one of the module's helper functions
    ret           \* how far that call has got, and what it returned

vars == <<pc, arg, message, initial_message_byte_length, buffers, num_blocks, i, X,
          A, B, C, D, step, reads, last_fgh, digest, hexdigest, exc, log, call, ret>>

helper == <<call, ret>>

locals == <<initial_message_byte_length, buffers, num_blocks, i, X, A, B, C, D>>

block_size_words == 16

\* Python's s[a:b] for 0 <= a <= b
Slice(s, a, b) == SubSeq(s, a + 1, IF b < Len(s) THEN b ELSE Len(s))

\* the value of the local named n
Local(n) == CASE n = "A" -> A [] n = "B" -> B [] n = "C" -> C [] n = "D" -> D

Init ==
    /\ pc = "idle"
    /\ arg = <<>>
    /\ message = <<>>
    /\ initial_message_byte_length = PyInt(0)
    /\ buffers = <<>>
    /\ num_blocks = 0
    /\ i = 0
    /\ X = <<>>
    /\ A = PyInt(0) /\ B = PyInt(0) /\ C = PyInt(0) /\ D = PyInt(0)
    /\ step = 0
    /\ reads = <<>>
    /\ last_fgh = PyInt(0)
    /\ digest = <<>>
    /\ hexdigest = <<>>
    /\ exc = "none"
    /\ log = <<>>
    /\ call = [fn |-> "md4_hex_digest"]
    /\ ret = [stage |-> "none"]

\* md4_hex_digest(m) is called
Call(m) ==
    /\ pc = "idle"
    /\ Len(log) < MaxCalls
    /\ arg' = m
    /\ message' = m
    /\ pc' = "preprocess"
    /\ UNCHANGED <<locals, step, reads, last_fgh, digest, hexdigest, exc, log>>
    /\ UNCHANGED helper

\* initial_message_byte_length = len(message)
\* message = append_length(pad_message(message), initial_message_byte_length)
Preprocess ==
    /\ pc = "preprocess"
    /\ LET r == append_length(pad_message(message), PyInt(Len(message)))
       IN  /\ initial_message_byte_length' = PyInt(Len(message))
           /\ IF r.exc # "none"
              THEN pc' = "raised" /\ exc' = r.exc /\ message' = message
              ELSE pc' = "initialize" /\ exc' = exc /\ message' = r.val
    /\ UNCHANGED <<arg, buffers, num_blocks, i, X, A, B, C, D, step, reads, last_fgh,
                   digest, hexdigest, log>>
    /\ UNCHANGED helper

\* buffers = [0x67452301, 0xEFCDAB89, 0x98BADCFE, 0x10325476]
InitialBuffers ==
    << Lit32(\h6745, \h2301), Lit32(\hEFCD, \hAB89),
       Lit32(\h98BA, \hDCFE), Lit32(\h1032, \h5476) >>

\* (variant: buffers initialised by the first call only)
Initialize_once ==
    /\ pc = "initialize"
    /\ buffers' = IF log = <<>> THEN InitialBuffers ELSE buffers
    /\ num_blocks' = Len(message) \div (4 * block_size_words)
    /\ i' = 0
    /\ pc' = "loop"
    /\ UNCHANGED <<arg, message, initial_message_byte_length, X, A, B, C, D, step, reads,
                   last_fgh, digest, hexdigest, exc, log, call, ret>>

\* buffers = [...]; block_size_words = 16; num_blocks = len(message) // (4 * block_size_words)
\* and the start of the for loop
Initialize ==
    /\ pc = "initialize"
    /\ buffers' = InitialBuffers
    /\ num_blocks' = Len(message) \div (4 * block_size_words)
    /\ i' = 0
    /\ pc' = "loop"
    /\ UNCHANGED <<arg, message, initial_message_byte_length, X, A, B, C, D, step, reads,
                   last_fgh, digest, hexdigest, exc, log>>
    /\ UNCHANGED helper

\* the loop yields i: block = message[block_start:block_end]; X = list(struct.unpack(...));
\* A, B, C, D = buffers; and the call of round_1
LoadBlock ==
    /\ pc = "loop"
    /\ i < num_blocks
    /\ LET block_start == i * 4 * block_size_words
           block_end == (i + 1) * 4 * block_size_words
           block == Slice(message, block_start, block_end)
           r == unpack_16I(block)
       IN  IF r.exc # "none"
           THEN /\ pc' = "raised" /\ exc' = r.exc
                /\ UNCHANGED <<X, A, B, C, D, step, reads>>
           ELSE /\ X' = r.val
                /\ A' = buffers[1] /\ B' = buffers[2] /\ C' = buffers[3] /\ D' = buffers[4]
                /\ pc' = "round_1" /\ step' = 0 /\ reads' = <<>>
                /\ exc' = exc
    /\ UNCHANGED <<arg, message, initial_message_byte_length, buffers, num_blocks, i,
                   last_fgh, digest, hexdigest, log>>
    /\ UNCHANGED helper

\* the statement st of a round driver: target = op(a1, a2, a3, a4, X[k], s)
Assign(st, v) ==
    /\ A' = IF st.t = "A" THEN v ELSE A
    /\ B' = IF st.t = "B" THEN v ELSE B
    /\ C' = IF st.t = "C" THEN v ELSE C
    /\ D' = IF st.t = "D" THEN v ELSE D
    /\ step' = step + 1
    /\ reads' = Append(reads, st.k)

Round1Step ==
    /\ pc = "round_1"
    /\ step < Len(round_1)
    /\ LET st == round_1[step + 1]
       IN  /\ Assign(st, operation_round_1(Local(st.args[1]), Local(st.args[2]),
                                           Local(st.args[3]), Local(st.args[4]),
                                           X[st.k + 1], st.s))
           /\ last_fgh' = f(Local(st.args[2]), Local(st.args[3]), Local(st.args[4]))
    /\ UNCHANGED <<pc, arg, message, initial_message_byte_length, buffers, num_blocks, i, X,
                   digest, hexdigest, exc, log>>
    /\ UNCHANGED helper

Round2Step ==
    /\ pc = "round_2"
    /\ step < Len(round_2)
    /\ LET st == round_2[step + 1]
       IN  /\ Assign(st, operation_round_2(Local(st.args[1]), Local(st.args[2]),
                                           Local(st.args[3]), Local(st.args[4]),
                                           X[st.k + 1], st.s))
           /\ last_fgh' = g(Local(st.args[2]), Local(st.args[3]), Local(st.args[4]))
    /\ UNCHANGED <<pc, arg, message, initial_message_byte_length, buffers, num_blocks, i, X,
                   digest, hexdigest, exc, log>>
    /\ UNCHANGED helper

Round3Step ==
    /\ pc = "round_3"
    /\ step < Len(round_3)
    /\ LET st == round_3[step + 1]
       IN  /\ Assign(st, operation_round_3(Local(st.args[1]), Local(st.args[2]),
                                           Local(st.args[3]), Local(st.args[4]),
                                           X[st.k + 1], st.s))
           /\ last_fgh' = h(Local(st.args[2]), Local(st.args[3]), Local(st.args[4]))
    /\ UNCHANGED <<pc, arg, message, initial_message_byte_length, buffers, num_blocks, i, X,
                   digest, hexdigest, exc, log>>
    /\ UNCHANGED helper

\* return A, B, C, D  of a round driver, and the call of the next one
RoundReturn ==
    /\ \/ pc = "round_1" /\ step = Len(round_1) /\ pc' = "round_2"
       \/ pc = "round_2" /\ step = Len(round_2) /\ pc' = "round_3"
       \/ pc = "round_3" /\ step = Len(round_3) /\ pc' = "update"
    /\ step' = 0
    /\ reads' = <<>>
    /\ UNCHANGED <<arg, message, locals, last_fgh, digest, hexdigest, exc, log>>
    /\ UNCHANGED helper

\* zip(p, q) of two lists
zip(p, q) == [k \in 1..(IF Len(p) < Len(q) THEN Len(p) ELSE Len(q)) |-> <<p[k], q[k]>>]

\* (variant: the sums not masked to 32 bits)
UpdatedBuffers_unmasked(a, b, c, d, bufs) ==
    LET pairs == zip(<<a, b, c, d>>, bufs)
    IN  [k \in 1..Len(pairs) |-> PyAdd(pairs[k][1], pairs[k][2])]

\* (variant: the output of round 3 taken as the new state, the old state not added)
UpdatedBuffers_no_feed_forward(a, b, c, d, bufs) == <<a, b, c, d>>

\* [(v + n) & 0xFFFFFFFF for v, n in zip([A, B, C, D], buffers)]
UpdatedBuffers(a, b, c, d, bufs) ==
    LET pairs == zip(<<a, b, c, d>>, bufs)
    IN  [k \in 1..Len(pairs) |-> PyAnd(PyAdd(pairs[k][1], pairs[k][2]), Mask32)]

\* buffers = [...], and the end of the loop body
Update ==
    /\ pc = "update"
    /\ buffers' = UpdatedBuffers(A, B, C, D, buffers)
    /\ i' = i + 1
    /\ pc' = "loop"
    /\ UNCHANGED <<arg, message, initial_message_byte_length, num_blocks, X, A, B, C, D,
                   step, reads, last_fgh, digest, hexdigest, exc, log>>
    /\ UNCHANGED helper

\* the loop is exhausted: return struct.pack("<4L", *buffers)
Pack ==
    /\ pc = "loop"
    /\ i >= num_blocks
    /\ LET r == pack_4L(buffers)
       IN  IF r.exc # "none"
           THEN pc' = "raised" /\ exc' = r.exc /\ digest' = digest
           ELSE pc' = "hex" /\ exc' = exc /\ digest' = r.val
    /\ UNCHANGED <<arg, message, locals, step, reads, last_fgh, hexdigest, log>>
    /\ UNCHANGED helper

\* md4_hex_digest: return md4(message).hex()
HexDigest ==
    /\ pc = "hex"
    /\ hexdigest' = hex(digest)
    /\ log' = Append(log, [message |-> arg, digest |-> digest, hexdigest |-> hex(digest)])
    /\ pc' = "idle"
    /\ UNCHANGED <<arg, message, locals, step, reads, last_fgh, digest, exc>>
    /\ UNCHANGED helper

Next ==
    \/ \E m \in Messages : Call(m)
    \/ Preprocess
    \/ Initialize
    \/ LoadBlock
    \/ Round1Step
    \/ Round2Step
    \/ Round3Step
    \/ RoundReturn
    \/ Update
    \/ Pack
    \/ HexDigest

Spec == Init /\ [][Next]_vars

\* ------------------------------------------------------------------------
\* pad_message and append_length called on their own
\* ------------------------------------------------------------------------

MaxLength == 129

\* messages of every length up to MaxLength: varying content, all 0x00, all 0x80
PadMessages ==
    UNION { { Filled(n), [k \in 1..n |-> 0], [k \in 1..n |-> 128] } : n \in 0..MaxLength }

\* 2^61 + n and 2^64 + n: lengths whose bit length does not fit in 64 bits
Huge61(n) == [k \in Limbs |-> IF k = 1 THEN n ELSE IF k = 8 THEN 32 ELSE 0]

Huge64(n) == [k \in Limbs |-> IF k = 1 THEN n ELSE IF k = 9 THEN 1 ELSE 0]

OriginalLengths(m) == { PyInt(Len(m)), Huge61(0), Huge61(Len(m) + 1), Huge64(3) }

unused ==
    /\ pc = "idle" /\ arg = <<>> /\ message = <<>>
    /\ initial_message_byte_length = PyInt(0)
    /\ buffers = <<>> /\ num_blocks = 0 /\ i = 0 /\ X = <<>>
    /\ A = PyInt(0) /\ B = PyInt(0) /\ C = PyInt(0) /\ D = PyInt(0)
    /\ step = 0 /\ reads = <<>> /\ last_fgh = PyInt(0)
    /\ digest = <<>> /\ hexdigest = <<>> /\ exc = "none" /\ log = <<>>

md4_vars == <<pc, arg, message, locals, step, reads, last_fgh, digest, hexdigest, exc, log>>

InitPad ==
    /\ unused
    /\ \E m \in PadMessages : \E n \in OriginalLengths(m) :
          call = [fn |-> "append_length(pad_message(message), original_length)",
                  message |-> m, original_length |-> n]
    /\ ret = [stage |-> "called", padded |-> <<>>, appended |-> Returns(<<>>)]

PadMessage ==
    /\ ret.stage = "called"
    /\ ret' = [ret EXCEPT !.stage = "padded", !.padded = pad_message(call.message)]
    /\ UNCHANGED <<md4_vars, call>>

AppendLength ==
    /\ ret.stage = "padded"
    /\ ret' = [ret EXCEPT !.stage = "appended",
                          !.appended = append_length(ret.padded, call.original_length)]
    /\ UNCHANGED <<md4_vars, call>>

NextPad == PadMessage \/ AppendLength

SpecPad == InitPad /\ [][NextPad]_vars

\* ------------------------------------------------------------------------
\* operation_round_1/2/3 and left_rotate called on their own
\* ------------------------------------------------------------------------

\* 32-bit arguments: 0, 0xFFFFFFFF, 0x80000001, 0x67452301
Words32 ==
    { PyInt(0), Lit32(\hFFFF, \hFFFF), Lit32(\h8000, \h0001), Lit32(\h6745, \h2301) }

\* the rotate amounts a round driver passes
Amounts(round) == { round[k].s : k \in 1..Len(round) }

OpCalls(fn, round) ==
    { [fn |-> fn, a |-> a, b |-> b, c |-> c, d |-> d, x |-> x, s |-> s] :
        a \in Words32, b \in Words32, c \in Words32, d \in Words32, x \in Words32,
        s \in Amounts(round) }

InitOps ==
    /\ unused
    /\ call \in OpCalls("operation_round_1", round_1)
                 \cup OpCalls("operation_round_2", round_2)
                 \cup OpCalls("operation_round_3", round_3)
    /\ ret = [stage |-> "called", fgh |-> PyInt(0), rotated |-> PyInt(0), val |-> PyInt(0)]

\* the call returns val; fgh is what its call of f, g or h returned, and rotated
\* what left_rotate(x, s) returns for its own arguments x and s
Returned(fgh, val) ==
    [stage |-> "returned", fgh |-> fgh, rotated |-> left_rotate(call.x, call.s), val |-> val]

OperationRound1 ==
    /\ ret.stage = "called"
    /\ call.fn = "operation_round_1"
    /\ ret' = Returned(f(call.b, call.c, call.d),
                       operation_round_1(call.a, call.b, call.c, call.d, call.x, call.s))
    /\ UNCHANGED <<md4_vars, call>>

OperationRound2 ==
    /\ ret.stage = "called"
    /\ call.fn = "operation_round_2"
    /\ ret' = Returned(g(call.b, call.c, call.d),
                       operation_round_2(call.a, call.b, call.c, call.d, call.x, call.s))
    /\ UNCHANGED <<md4_vars, call>>

OperationRound3 ==
    /\ ret.stage = "called"
    /\ call.fn = "operation_round_3"
    /\ ret' = Returned(h(call.b, call.c, call.d),
                       operation_round_3(call.a, call.b, call.c, call.d, call.x, call.s))
    /\ UNCHANGED <<md4_vars, call>>

NextOps == OperationRound1 \/ OperationRound2 \/ OperationRound3

SpecOps == InitOps /\ [][NextOps]_vars

\* the statements of md4 as the interpreter runs them: a call, once made,
\* runs on whenever it has a next statement
Run ==
    \/ Preprocess
    \/ Initialize
    \/ LoadBlock
    \/ Round1Step
    \/ Round2Step
    \/ Round3Step
    \/ RoundReturn
    \/ Update
    \/ Pack
    \/ HexDigest

\* a call is in progress
Running == pc \notin {"idle", "raised"}

\* Weak fairness of Run, WF_vars(Run), with ENABLED <<Run>>_vars written as the state
\* predicate Running it is equal to: every statement position of a call in progress
\* has a statement of Run to execute (CanStep, below, states the guards)
Fairness == []<>(~Running) \/ []<><<Run>>_vars

FairSpec == Spec /\ Fairness

\* ------------------------------------------------------------------------
\* Reference arithmetic the properties are stated in
\* ------------------------------------------------------------------------

\* an integer in 0 .. 2^32 - 1
IsUint32(x) ==
    /\ DOMAIN x = Limbs
    /\ \A k \in Limbs : x[k] \in 0..255 /\ (k > 4 => x[k] = 0)

\* the 32-bit word with the bytes b0 (least significant) .. b3
Word(b0, b1, b2, b3) ==
    [k \in Limbs |-> CASE k = 1 -> b0 [] k = 2 -> b1 [] k = 3 -> b2 [] k = 4 -> b3
                       [] OTHER -> 0]

Lo16(x) == x[1] + 256 * x[2]

Hi16(x) == x[3] + 256 * x[4]

\* (x + y) mod 2^32 for 32-bit x and y, on 16-bit halves
AddMod32(x, y) ==
    LET lo == Lo16(x) + Lo16(y)
        hi == Hi16(x) + Hi16(y) + (lo \div 65536)
    IN  Word(lo % 256, (lo \div 256) % 256, hi % 256, (hi \div 256) % 256)

\* bit n (0..31) of the 32-bit word x
BitAt(x, n) == (x[(n \div 8) + 1] \div Pow2(n % 8)) % 2

\* byte k (0..3) of x rotated left by s: bit n of the result is bit (n - s) mod 32 of x
RotByte(x, s, k) ==
    BitAt(x, (8 * k - s) % 32) + 2 * BitAt(x, (8 * k + 1 - s) % 32)
    + 4 * BitAt(x, (8 * k + 2 - s) % 32) + 8 * BitAt(x, (8 * k + 3 - s) % 32)
    + 16 * BitAt(x, (8 * k + 4 - s) % 32) + 32 * BitAt(x, (8 * k + 5 - s) % 32)
    + 64 * BitAt(x, (8 * k + 6 - s) % 32) + 128 * BitAt(x, (8 * k + 7 - s) % 32)

\* the 32-bit circular left shift
Rotl32(x, s) == Word(RotByte(x, s, 0), RotByte(x, s, 1), RotByte(x, s, 2), RotByte(x, s, 3))

\* a function of three bits applied at each of the 8 bit positions of three bytes
Bitwise8(op(_, _, _), a, b, c) ==
    op(BitOf(a, 0), BitOf(b, 0), BitOf(c, 0))
    + 2 * op(BitOf(a, 1), BitOf(b, 1), BitOf(c, 1))
    + 4 * op(BitOf(a, 2), BitOf(b, 2), BitOf(c, 2))
    + 8 * op(BitOf(a, 3), BitOf(b, 3), BitOf(c, 3))
    + 16 * op(BitOf(a, 4), BitOf(b, 4), BitOf(c, 4))
    + 32 * op(BitOf(a, 5), BitOf(b, 5), BitOf(c, 5))
    + 64 * op(BitOf(a, 6), BitOf(b, 6), BitOf(c, 6))
    + 128 * op(BitOf(a, 7), BitOf(b, 7), BitOf(c, 7))

Bitwise32(op(_, _, _), x, y, z) ==
    Word(Bitwise8(op, x[1], y[1], z[1]), Bitwise8(op, x[2], y[2], z[2]),
         Bitwise8(op, x[3], y[3], z[3]), Bitwise8(op, x[4], y[4], z[4]))

\* per bit: if x then y else z;  the majority of x, y, z;  the parity of x, y, z
IfThenElseBit(x, y, z) == IF x = 1 THEN y ELSE z

MajorityBit(x, y, z) == IF x + y + z >= 2 THEN 1 ELSE 0

ParityBit(x, y, z) == (x + y + z) % 2

\* the characters of a 32-character hex digest as one string
Join32(cs) ==
    cs[1] \o cs[2] \o cs[3] \o cs[4] \o cs[5] \o cs[6] \o cs[7] \o cs[8]
    \o cs[9] \o cs[10] \o cs[11] \o cs[12] \o cs[13] \o cs[14] \o cs[15] \o cs[16]
    \o cs[17] \o cs[18] \o cs[19] \o cs[20] \o cs[21] \o cs[22] \o cs[23] \o cs[24]
    \o cs[25] \o cs[26] \o cs[27] \o cs[28] \o cs[29] \o cs[30] \o cs[31] \o cs[32]

\* every completed call with the argument m returned the hex digest d
DigestIs(m, d) ==
    \A n \in 1..Len(log) :
        log[n].message = m => Len(log[n].hexdigest) = 32 /\ Join32(log[n].hexdigest) = d

MessageDigestBytes == <<109, 101, 115, 115, 97, 103, 101, 32, 100, 105, 103, 101, 115, 116>>

AlphabetBytes == [k \in 1..26 |-> 96 + k]

\* ------------------------------------------------------------------------
\* Properties
\* ------------------------------------------------------------------------

\* C1: md4_hex_digest returns the RFC 1320 known-answer digests for "", "a", "abc",
\* "message digest" and "abcdefghijklmnopqrstuvwxyz".
C1_KnownAnswers ==
    /\ DigestIs(<<>>, "31d6cfe0d16ae931b73c59d7e0c089c0")
    /\ DigestIs(<<97>>, "bde52cb31de33e46245e05fbdbd6fb24")
    /\ DigestIs(<<97, 98, 99>>, "a448017aaf21d8525fc10ae87aa6729d")
    /\ DigestIs(MessageDigestBytes, "d9130a8164549fe818874806e1c7014b")
    /\ DigestIs(AlphabetBytes, "d79e1c308aa5bbcdeea8ed63df412da9")

C1_Witness ==
    /\ Len(log) = 2
    /\ log[1].message = <<97, 98, 99>>
    /\ Join32(log[1].hexdigest) = "a448017aaf21d8525fc10ae87aa6729d"
    /\ log[2].message = MessageDigestBytes
    /\ Join32(log[2].hexdigest) = "d9130a8164549fe818874806e1c7014b"

\* C2 as stated: pad_message(m) has a byte length that is a multiple of 64 and at
\* least len(m) + 9.
C2_PadMessageIsWholeBlocks ==
    ret.stage = "padded" =>
        /\ Len(ret.padded) % 64 = 0
        /\ Len(ret.padded) >= Len(call.message) + 9

\* C2 as amended: pad_message(m) has a byte length congruent to 56 modulo 64 and at
\* least len(m) + 1; it is append_length(pad_message(m), n) whose byte length is a
\* multiple of 64 and at least len(m) + 9.
C2_PreprocessedIsWholeBlocks ==
    /\ ret.stage \in {"padded", "appended"} =>
          /\ Len(ret.padded) % 64 = 56
          /\ Len(ret.padded) >= Len(call.message) + 1
    /\ ret.stage = "appended" =>
          /\ ret.appended.exc = "none"
          /\ Len(ret.appended.val) % 64 = 0
          /\ Len(ret.appended.val) >= Len(call.message) + 9

C2_Witness ==
    /\ ret.stage = "appended"
    /\ Len(call.message) = 57
    /\ Len(ret.padded) = 120
    /\ Len(ret.appended.val) = 128

Rounds == {"round_1", "round_2", "round_3"}

\* the characters bytes.hex() may produce
LowercaseHex == {"0", "1", "2", "3", "4", "5", "6", "7", "8", "9", "a", "b", "c", "d", "e", "f"}

\* the guards of the statements of Run: a call in progress is never stuck
CanStep ==
    \/ pc \in {"preprocess", "initialize", "update", "hex"}
    \/ pc = "loop" /\ (i < num_blocks \/ i >= num_blocks)
    \/ pc \in Rounds /\ (step < 16 \/ step = 16)

C3_Safe ==
    /\ Running => CanStep
    /\ pc # "raised"
    /\ exc = "none"
    /\ pc = "hex" =>
          /\ Len(digest) = 16
          /\ i = num_blocks
          /\ 64 * num_blocks = Len(message)
    /\ \A n \in 1..Len(log) :
          /\ Len(log[n].digest) = 16
          /\ Len(log[n].hexdigest) = 32
          /\ \A k \in 1..Len(log[n].hexdigest) : log[n].hexdigest[k] \in LowercaseHex

\* C3: every call of md4 runs to its return without raising, returns 16 bytes (and
\* md4_hex_digest 32 lowercase hex characters), and its loop has run len(padded)/64
\* times, over all of the padded message, when it returns.
C3_TerminatesWith16Bytes == []C3_Safe /\ ((pc = "preprocess") ~> (pc = "idle"))

C3_Witness ==
    /\ pc = "idle"
    /\ Len(log) = 1
    /\ Len(log[1].message) = 56
    /\ Len(message) = 128
    /\ num_blocks = 2
    /\ i = 2
    /\ Len(log[1].digest) = 16

\* C4: the digest of a message is the same in every completed call, whatever was
\* hashed before, and every call starts its loop from the four initial constants.
C4_NoCarryOver ==
    /\ \A m, n \in 1..Len(log) :
          log[m].message = log[n].message =>
              /\ log[m].digest = log[n].digest
              /\ log[m].hexdigest = log[n].hexdigest
    /\ (pc = "loop" /\ i = 0) =>
          buffers = << Word(\h01, \h23, \h45, \h67), Word(\h89, \hAB, \hCD, \hEF),
                       Word(\hFE, \hDC, \hBA, \h98), Word(\h76, \h54, \h32, \h10) >>

C4_Witness ==
    /\ Len(log) = 3
    /\ log[1].message = <<97, 98, 99>>
    /\ Len(log[2].message) = 56
    /\ log[3].message = <<97, 98, 99>>
    /\ log[3].digest = log[1].digest

Zeros(k) == [j \in 1..k |-> 0]

\* C5: pad_message(m) is m, 0x80, then k zero bytes, 0 <= k <= 63, with a length of
\* 56 modulo 64; append_length(pad_message(m), len(m)) is the smallest multiple of
\* 64 bytes >= len(m) + 9 (64 bytes, k = 55, for the empty message; one block for
\* length 55, two for 56..64).
C5_PaddingLayout ==
    /\ ret.stage \in {"padded", "appended"} =>
          /\ Len(ret.padded) % 64 = 56
          /\ \E k \in 0..63 :
                /\ ret.padded = call.message \o <<128>> \o Zeros(k)
                /\ call.message = <<>> => k = 55
    /\ (ret.stage = "appended" /\ call.original_length = PyInt(Len(call.message))) =>
          LET len == Len(call.message)
              total == Len(ret.appended.val)
          IN  /\ ret.appended.exc = "none"
              /\ total % 64 = 0
              /\ total >= len + 9
              /\ total - 64 < len + 9
              /\ len = 0 => total = 64
              /\ len = 55 => total = 64
              /\ len \in 56..64 => total = 128

C5_Witness ==
    /\ ret.stage = "appended"
    /\ Len(call.message) = 56
    /\ call.original_length = PyInt(56)
    /\ ret.padded = call.message \o <<128>> \o Zeros(63)
    /\ Len(ret.appended.val) = 128

\* byte k (1 = least significant) of 8 * n
BitLengthByte(n, k) == ((n[k] * 8) % 256) + (IF k > 1 THEN n[k-1] \div 32 ELSE 0)

\* C6: append_length(p, n) is p followed by the 8 bytes of (8 * n) mod 2^64, least
\* significant first; in md4, n is the length of the message before padding.
C6_LengthField ==
    ret.stage = "appended" =>
        /\ ret.appended.exc = "none"
        /\ Len(ret.appended.val) = Len(ret.padded) + 8
        /\ SubSeq(ret.appended.val, 1, Len(ret.padded)) = ret.padded
        /\ \A k \in 1..8 :
              ret.appended.val[Len(ret.padded) + k] = BitLengthByte(call.original_length, k)
        /\ call.original_length = PyInt(Len(call.message)) =>
              \A k \in 1..8 :
                  ret.appended.val[Len(ret.padded) + k] =
                      IF k <= 3 THEN ((8 * Len(call.message)) \div Pow2(8 * (k - 1))) % 256 ELSE 0

C6_Witness ==
    /\ ret.stage = "appended"
    /\ Len(call.message) = 100
    /\ call.original_length = Huge61(101)
    /\ SubSeq(ret.appended.val, 121, 128) = <<40, 3, 0, 0, 0, 0, 0, 0>>

\* the 16 words of block n of the padded message p, least significant byte first
BlockWords(p, n) ==
    [j \in 1..16 |-> Word(p[64 * n + 4 * (j - 1) + 1], p[64 * n + 4 * (j - 1) + 2],
                          p[64 * n + 4 * (j - 1) + 3], p[64 * n + 4 * (j - 1) + 4])]

C7_Step ==
    /\ pc = "initialize" => i' = 0
    /\ (pc = "loop" /\ pc' = "round_1") =>
          /\ <<A', B', C', D'>> = buffers
          /\ X' = BlockWords(message, i)
          /\ buffers' = buffers /\ i' = i
    /\ pc \in Rounds => buffers' = buffers /\ i' = i /\ message' = message
    /\ pc = "update" =>
          /\ buffers' = << AddMod32(buffers[1], A), AddMod32(buffers[2], B),
                           AddMod32(buffers[3], C), AddMod32(buffers[4], D) >>
          /\ i' = i + 1
          /\ pc' = "loop"

\* C7: the blocks are folded in increasing order; the rounds of a block run on the
\* copy A, B, C, D of the entering state and leave buffers alone; after round 3
\* buffers becomes entering state + round-3 output, component-wise modulo 2^32, and
\* that is the state the next block enters with.
C7_SequentialFold == [][C7_Step]_vars

C7_Witness ==
    /\ pc = "round_1"
    /\ step = 0
    /\ i = 1
    /\ <<A, B, C, D>> = buffers
    /\ buffers # InitialBuffers
    /\ X = BlockWords(message, 1)

\* the schedule as C8 and C9 state it
ReferenceOperation(n, a, b, c, d, x, s) ==
    CASE n = 1 -> Rotl32(AddMod32(AddMod32(a, Bitwise32(IfThenElseBit, b, c, d)), x), s)
      [] n = 2 -> Rotl32(AddMod32(AddMod32(AddMod32(a, Bitwise32(MajorityBit, b, c, d)), x),
                                  Word(\h99, \h79, \h82, \h5A)), s)
      [] n = 3 -> Rotl32(AddMod32(AddMod32(AddMod32(a, Bitwise32(ParityBit, b, c, d)), x),
                                  Word(\hA1, \hEB, \hD9, \h6E)), s)

\* C8: operation_round_1/2/3 return rotl((a + f/g/h(b, c, d) + x [+ constant]) mod 2^32, s),
\* the sum taken modulo 2^32 as a whole before it is rotated, and left_rotate is the
\* 32-bit circular shift.
C8_OperationRounds ==
    ret.stage = "returned" =>
        /\ call.fn = "operation_round_1" =>
              ret.val = ReferenceOperation(1, call.a, call.b, call.c, call.d, call.x, call.s)
        /\ call.fn = "operation_round_2" =>
              ret.val = ReferenceOperation(2, call.a, call.b, call.c, call.d, call.x, call.s)
        /\ call.fn = "operation_round_3" =>
              ret.val = ReferenceOperation(3, call.a, call.b, call.c, call.d, call.x, call.s)
        /\ ret.rotated = Rotl32(call.x, call.s)

C8_Witness ==
    /\ ret.stage = "returned"
    /\ call.fn = "operation_round_1"
    /\ call.a = Word(255, 255, 255, 255)
    /\ call.x = Word(255, 255, 255, 255)
    /\ call.b = Word(1, 0, 0, 128)
    /\ call.c = Word(255, 255, 255, 255)
    /\ call.d = Word(0, 0, 0, 0)
    /\ call.s = 19
    /\ ret.val = Rotl32(Word(255, 255, 255, 127), 19)

RoleOrder == <<"A", "D", "C", "B">>

\* the three other variables, in the order they are passed after the recomputed one
OtherThree(role) ==
    CASE role = "A" -> <<B, C, D>>
      [] role = "D" -> <<A, B, C>>
      [] role = "C" -> <<D, A, B>>
      [] role = "B" -> <<C, D, A>>

WordOrder ==
    << <<0, 1, 2, 3, 4, 5, 6, 7, 8, 9, 10, 11, 12, 13, 14, 15>>,
       <<0, 4, 8, 12, 1, 5, 9, 13, 2, 6, 10, 14, 3, 7, 11, 15>>,
       <<0, 8, 4, 12, 2, 10, 6, 14, 1, 9, 5, 13, 3, 11, 7, 15>> >>

RotateAmounts == << <<3, 7, 11, 19>>, <<3, 5, 9, 13>>, <<3, 9, 11, 15>> >>

RoundNumber == CASE pc = "round_1" -> 1 [] pc = "round_2" -> 2 [] pc = "round_3" -> 3

C9_Step ==
    (pc \in Rounds /\ step < 16) =>
        LET role == RoleOrder[(step % 4) + 1]
            others == OtherThree(role)
            new == ReferenceOperation(RoundNumber, Local(role), others[1], others[2], others[3],
                                      X[WordOrder[RoundNumber][step + 1] + 1],
                                      RotateAmounts[RoundNumber][(step % 4) + 1])
        IN  /\ A' = IF role = "A" THEN new ELSE A
            /\ B' = IF role = "B" THEN new ELSE B
            /\ C' = IF role = "C" THEN new ELSE C
            /\ D' = IF role = "D" THEN new ELSE D
            /\ X' = X
            /\ step' = step + 1
            /\ reads' = Append(reads, WordOrder[RoundNumber][step + 1])

C9_Reads ==
    (pc \in Rounds /\ step = 16) =>
        /\ Len(reads) = 16
        /\ { reads[k] : k \in 1..16 } = 0..15

\* C9: each of the 16 steps of a round recomputes one variable, in the order
\* A, D, C, B, from the current values of the other three, with the word index and
\* rotate amount of the table, and a round reads each of the 16 words exactly once.
C9_Schedule == [][C9_Step /\ C9_Reads]_vars

C9_Witness ==
    /\ pc = "round_3"
    /\ step = 16
    /\ reads = <<0, 8, 4, 12, 2, 10, 6, 14, 1, 9, 5, 13, 3, 11, 7, 15>>
    /\ i = 1

\* C10: A, B, C, D, the elements of buffers, the block words and the values f, g, h,
\* left_rotate and the operation_round_* helpers return are in 0 .. 2^32 - 1
\* throughout.
C10_Range32 ==
    /\ IsUint32(A) /\ IsUint32(B) /\ IsUint32(C) /\ IsUint32(D)
    /\ \A k \in 1..Len(buffers) : IsUint32(buffers[k])
    /\ \A k \in 1..Len(X) : IsUint32(X[k])
    /\ IsUint32(last_fgh)

C10_Witness ==
    /\ pc = "round_1"
    /\ step = 1
    /\ i = 1
    /\ last_fgh[4] >= 128
    /\ A[4] >= 128

====
